---------------------------- MODULE Spec2Model ----------------------------
(***************************************************************************)
(* Model of the simplestreams catalog-and-proxy worker                     *)
(* (src/cloudflare-worker.js): the request router, the two catalog         *)
(* handlers and the download proxy, over a key-value registry.             *)
(* The publisher that fills the registry                                   *)
(* (src/scripts/upload-kv-metadata.sh) is modelled at the end.             *)
(*                                                                         *)
(* Text is modelled as a sequence of tokens.  A token is either one of the *)
(* separator characters "/", ":" and "?", or a maximal non-empty run of    *)
(* other characters (a TLA+ string).  The code only ever inspects text at  *)
(* these separators (split(':'), the path regular expressions) or compares *)
(* whole strings, so the tokenisation loses nothing the code can see.      *)
(***************************************************************************)
EXTENDS Integers, Sequences, FiniteSets, TLC

VARIABLES
    kv,     \* the registry: env.IMAGE_HASHES, key -> stored value
    env,    \* the worker's environment variables
    req,    \* the requests in flight: id -> handler state
    pub     \* the runs of the publisher script: id -> what is left of the run

vars == <<kv, env, req, pub>>

(***************************************************************************)
(* Bounds                                                                  *)
(***************************************************************************)
\* longest Product Key Set (products:list array) the registry starts with
MaxList == 2

(***************************************************************************)
(* Text                                                                    *)
(***************************************************************************)
Seps == {"/", ":", "?"}

IsSep(t) == t \in Seps

\* string concatenation, a + b or `${a}${b}`: adjacent runs merge
Cat(a, b) ==
    IF a = <<>> THEN b
    ELSE IF b = <<>> THEN a
    ELSE IF ~IsSep(a[Len(a)]) /\ ~IsSep(b[1])
         THEN SubSeq(a, 1, Len(a) - 1) \o <<a[Len(a)] \o b[1]>> \o Tail(b)
         ELSE a \o b

Cat3(a, b, c) == Cat(Cat(a, b), c)

\* String.prototype.split(sep) for a one-character separator
RECURSIVE Split(_, _)
Split(s, sep) ==
    LET hits == {i \in 1..Len(s) : s[i] = sep}
    IN  IF hits = {} THEN <<s>>
        ELSE LET i == CHOOSE j \in hits : \A k \in hits : j <= k
             IN  <<SubSeq(s, 1, i - 1)>> \o Split(SubSeq(s, i + 1, Len(s)), sep)

\* Array.prototype.join(sep)
RECURSIVE Join(_, _)
Join(parts, sep) ==
    IF Len(parts) = 0 THEN <<>>
    ELSE IF Len(parts) = 1 THEN parts[1]
    ELSE Cat3(parts[1], <<sep>>, Join(Tail(parts), sep))

\* String.prototype.toLowerCase, on the runs the model's inputs use
LowerRun(t) ==
    CASE t = "X86_64" -> "x86_64"
      [] t = "AMD64"  -> "amd64"
      [] t = "function Object() { [native code] }" -> "function object() { [native code] }"
      [] t = "[object Object]" -> "[object object]"
      [] OTHER        -> t

ToLowerCase(s) == [i \in 1..Len(s) |-> LowerRun(s[i])]

(***************************************************************************)
(* JavaScript values read out of a parsed record: undefined, a string or a *)
(* number                                                                  *)
(***************************************************************************)
Undef == [t |-> "undefined", s |-> <<>>, n |-> 0]

StrV(s) == [t |-> "string", s |-> s, n |-> 0]

NumV(n) == [t |-> "number", s |-> <<>>, n |-> n]

\* ToBoolean
Truthy(x) ==
    CASE x.t = "string" -> x.s # <<>>
      [] x.t = "number" -> x.n # 0
      [] OTHER          -> FALSE

\* ToString, as a template literal or Headers.set applies it
ToStr(x) ==
    CASE x.t = "string" -> x.s
      [] x.t = "number" -> <<ToString(x.n)>>
      [] OTHER          -> <<"undefined">>

\* a || b on a value and a string default
OrElse(x, dflt) == IF Truthy(x) THEN ToStr(x) ELSE dflt


(***************************************************************************)
(* Registry values.  A stored value is a text; the model keeps what        *)
(* JSON.parse makes of it: nothing stored ("absent"), the empty text,      *)
(* a text that is not JSON ("garbage"), or the JSON value null, an array   *)
(* of strings, or an object with the record's fields.                      *)
(***************************************************************************)
Fields == {"creation_date", "meta_hash", "meta_size", "disk_hash", "disk_size",
           "combined_hash", "talos_factory_url", "talos_schematic_id",
           "github_repo", "filename_prefix"}

NoFields == [f \in Fields |-> Undef]

Stored(kind, arr, obj) == [kind |-> kind, arr |-> arr, obj |-> obj]

Absent == Stored("absent", <<>>, NoFields)

EmptyText == Stored("empty", <<>>, NoFields)

Garbage == Stored("garbage", <<>>, NoFields)

JsonNull == Stored("null", <<>>, NoFields)

JsonArray(a) == Stored("array", a, NoFields)

JsonObject(o) == Stored("object", <<>>, o)

\* the record scripts/upload-kv-metadata.sh writes
PublishedRecord ==
    [NoFields EXCEPT !["meta_hash"] = StrV(<<"aaa">>),
                     !["meta_size"] = NumV(1024),
                     !["disk_hash"] = StrV(<<"bbb">>),
                     !["disk_size"] = NumV(207000000),
                     !["combined_hash"] = StrV(<<"ccc">>),
                     !["creation_date"] = NumV(1766716800),
                     !["github_repo"] = StrV(<<"talos-incus">>)]

MirrorUrl == <<"https", ":", "/", "/", "mirror.example", "/", "talos.qcow2">>

\* a record carrying the optional upstream-source hints
HintedRecord ==
    [PublishedRecord EXCEPT !["talos_factory_url"] = StrV(MirrorUrl),
                            !["talos_schematic_id"] = StrV(<<"5c4e">>),
                            !["filename_prefix"] = StrV(<<"metal">>)]

\* a record with the build identifier as its only upstream-source hint
SchematicRecord ==
    [PublishedRecord EXCEPT !["talos_schematic_id"] = StrV(<<"5c4e">>)]

\* a record with exactly the six facts of a published variant
ScenarioRecord == [PublishedRecord EXCEPT !["github_repo"] = Undef]

\* a record created at the epoch
EpochRecord == [PublishedRecord EXCEPT !["creation_date"] = NumV(0)]

\* env.IMAGE_HASHES.get(key): null when nothing is stored
KvGet(store, key) == IF key \in DOMAIN store THEN store[key] ELSE Absent

\* mutant of Falsy: only the empty text counts as missing
Falsy_EmptyOnly(v) == v.kind = "empty"

\* !value, for a value KV get returned: null and "" are falsy
Falsy(v) == v.kind \in {"absent", "empty"}

\* JSON.parse(text) throws on a text that is not JSON
JsonParseThrows(v) == v.kind \in {"empty", "garbage"}

\* value.name on a parsed value (a TypeError on null is PropThrows)
Prop(v, name) == IF v.kind = "object" THEN v.obj[name] ELSE Undef

PropThrows(v) == v.kind = "null"

(***************************************************************************)
(* Registry keys                                                           *)
(***************************************************************************)
ProductsListKey == <<"products", ":", "list">>

K1 == <<"product", ":", "talos", ":", "v1.12.0", ":", "amd64", ":", "default">>

\* five segments, the version holding a "/"
KS == <<"product", ":", "talos", ":", "v1", "/", "rc", ":", "amd64", ":", "default">>

\* four segments
K4 == <<"product", ":", "talos", ":", "v1", ":", "amd64">>

\* six segments
K6 == <<"product", ":", "talos", ":", "v1", ":", "amd64", ":", "default", ":", "x">>

\* five segments, another namespace
KW == <<"products", ":", "talos", ":", "v1", ":", "amd64", ":", "default">>

\* five segments, the version without a leading 'v'; published, not listed
KN == <<"product", ":", "talos", ":", "1.12.0", ":", "amd64", ":", "default">>

ListEntries == {K1, KS, K4, K6, KW}

SeqsUpTo(S, n) == UNION {[1..m -> S] : m \in 0..n}

ListValues ==
    {Absent, Garbage, JsonNull} \cup {JsonArray(a) : a \in SeqsUpTo(ListEntries, MaxList)}

RecordValues ==
    {Absent, EmptyText, Garbage, JsonNull,
     JsonObject(NoFields), JsonObject(PublishedRecord), JsonObject(HintedRecord),
     JsonObject(SchematicRecord), JsonObject(ScenarioRecord), JsonObject(EpochRecord)}

\* what the registry holds under KS and KN: nothing yet, or their records
OtherRecords ==
    {<<Absent, Absent>>, <<JsonObject(PublishedRecord), JsonObject(ScenarioRecord)>>}

Registries ==
    {[k \in {ProductsListKey, K1, KS, KN} |->
        CASE k = ProductsListKey -> l
          [] k = K1 -> r1
          [] k = KS -> others[1]
          [] OTHER  -> others[2]] :
        l \in ListValues, r1 \in RecordValues, others \in OtherRecords}

(***************************************************************************)
(* Request URLs: new URL(request.url), by its components                   *)
(***************************************************************************)
Url(pathname, search) ==
    [protocol |-> <<"https", ":">>, host |-> <<"images.example">>,
     pathname |-> pathname, search |-> search]

DownloadPathname(product, version, arch, variant, versionKey, filename) ==
    Cat(<<"/", "images", "/">>,
        Join(<<product, version, arch, variant, versionKey, filename>>, "/"))

ReqArchs == {<<"amd64">>, <<"X86_64">>, <<"riscv64">>, <<"arm64">>, <<"constructor">>}

ReqFilenames ==
    {<<"incus.tar.xz">>, <<"lxd.tar.xz">>, <<"disk.qcow2">>, <<"disk-kvm.img">>,
     <<"rootfs.squashfs">>}

ReqVersionKey == <<"20251226_00", ":", "00">>

WellFormedPathnames ==
    {DownloadPathname(<<"talos">>, <<"v1.12.0">>, a, <<"default">>, ReqVersionKey, f) :
        a \in ReqArchs, f \in ReqFilenames}
    \cup {DownloadPathname(<<"talos">>, <<"1.12.0">>, <<"amd64">>, <<"default">>,
                           ReqVersionKey, f) :
             f \in {<<"disk.qcow2">>, <<"incus.tar.xz">>}}

OtherPathnames ==
    {<<"/", "streams", "/", "v1", "/", "index.json">>,
     <<"/", "streams", "/", "v1", "/", "images.json">>,
     <<"/", "images", "/", "talos", "/", "v1">>,
     <<"/", "images", "/", "talos", "/", "v1", "/", "amd64", "/", "default", "/",
       "20251226_00", ":", "00", "/", "sub", "/", "incus.tar.xz">>,
     <<"/", "images", "/", "talos", "/">>,
     <<"/", "images", "/", "talos">>,
     <<"/", "images">>,
     <<"/">>}

QueryPathnames ==
    {DownloadPathname(<<"talos">>, <<"v1.12.0">>, <<"amd64">>, <<"default">>,
                      ReqVersionKey, f) :
        f \in {<<"incus.tar.xz">>, <<"disk.qcow2">>}}

RequestUrls ==
    {Url(p, <<>>) : p \in WellFormedPathnames \cup OtherPathnames}
    \cup {Url(p, <<"?", "x=1">>) : p \in QueryPathnames}

(***************************************************************************)
(* Responses                                                               *)
(***************************************************************************)
NoHeaders == <<>>

\* Headers.prototype.set(name, value)
SetHeader(h, name, value) ==
    [n \in DOMAIN h \cup {name} |-> IF n = name THEN value ELSE h[n]]

TextPlain == [n \in {"Content-Type"} |-> <<"text", "/", "plain">>]

Response(kind, text, status, headers) ==
    [kind |-> kind, text |-> text, status |-> status, headers |-> headers,
     products |-> <<>>, doc |-> <<>>]

NoResponse == Response("none", <<>>, 0, NoHeaders)

\* statuses for which the Response constructor refuses a body
NullBodyStatuses == {101, 204, 205, 304}

\* new Response(body, {status}) throws a RangeError for a status outside
\* 200..599 and a TypeError for a body given with a null-body status
ResponseCtorThrows(hasBody, status) ==
    \/ status < 200
    \/ status > 599
    \/ hasBody /\ status \in NullBodyStatuses

(***************************************************************************)
(* Upstream origins: what fetch(sourceUrl) can come back with              *)
(***************************************************************************)
UpstreamStatuses == {200, 304, 404, 503}

UpstreamHeaderSets ==
    {[n \in {"Content-Type"} |-> <<"application", "/", "octet-stream">>],
     [n \in {"Content-Type", "Access-Control-Allow-Origin", "Incus-Image-Hash"} |->
        CASE n = "Content-Type" -> <<"application", "/", "octet-stream">>
          [] n = "Access-Control-Allow-Origin" -> <<"https", ":", "/", "/", "origin.example">>
          [] OTHER -> <<"0000">>]}

Upstream(threw, status, headers) ==
    [threw |-> threw, status |-> status, headers |-> headers]

NoUpstream == Upstream(FALSE, 0, NoHeaders)

FetchOutcomes ==
    {Upstream(TRUE, 0, NoHeaders)}
    \cup {Upstream(FALSE, s, h) : s \in UpstreamStatuses, h \in UpstreamHeaderSets}

\* mutant of Ok: every status from 200 on counts as a success
Ok_AnyStatus(status) == status >= 200

\* response.ok
Ok(status) == status \in 200..299

(***************************************************************************)
(* handleImageDownload                                                     *)
(***************************************************************************)
Match(ok, segs, filename) ==
    [ok |-> ok,
     product |-> segs[1], version |-> segs[2], arch |-> segs[3],
     variant |-> segs[4], versionKey |-> segs[5], filename |-> filename]

NoMatch == Match(FALSE, <<<<>>, <<>>, <<>>, <<>>, <<>>>>, <<>>)

\* url.pathname.match(/^\/images\/([^\/]+)\/([^\/]+)\/([^\/]+)\/([^\/]+)\/([^\/]+)\/(.+)$/)
SimplestreamsMatch(pathname) ==
    IF Len(pathname) < 4 \/ SubSeq(pathname, 1, 3) # <<"/", "images", "/">>
    THEN NoMatch
    ELSE LET pieces == Split(SubSeq(pathname, 4, Len(pathname)), "/")
         IN  IF Len(pieces) < 6 \/ \E i \in 1..5 : pieces[i] = <<>>
             THEN NoMatch
             ELSE LET filename == Join(SubSeq(pieces, 6, Len(pieces)), "/")
                  IN  IF filename = <<>> THEN NoMatch
                      ELSE Match(TRUE, SubSeq(pieces, 1, 5), filename)

\* mutant of NormalizeArch: the entry of 'x86_64' names another alias
NormalizeArch_Chained(arch) ==
    LET a == ToLowerCase(arch)
    IN  CASE a = <<"aarch64">> -> <<"arm64">>
          [] a = <<"arm64">>   -> <<"arm64">>
          [] a = <<"x86_64">>  -> <<"x64">>
          [] a = <<"x64">>     -> <<"amd64">>
          [] a = <<"amd64">>   -> <<"amd64">>
          [] OTHER             -> arch

\* archMap[arch.toLowerCase()] || arch, as the template literals of lines
\* 277, 281, 308 and 323 print it.  archMap is an object literal, so a lookup
\* also finds the lower-case property names of Object.prototype:
\* 'constructor' (the function Object) and '__proto__' (Object.prototype)
NormalizeArch(arch) ==
    LET a == ToLowerCase(arch)
    IN  CASE a = <<"aarch64">> -> <<"arm64">>
          [] a = <<"arm64">>   -> <<"arm64">>
          [] a = <<"x86_64">>  -> <<"amd64">>
          [] a = <<"x64">>     -> <<"amd64">>
          [] a = <<"amd64">>   -> <<"amd64">>
          [] a = <<"constructor">> -> <<"function Object() { [native code] }">>
          [] a = <<"__proto__">>   -> <<"[object Object]">>
          [] OTHER             -> arch

\* `product:${product}:${version}:${normalizedArch}:${variant}`
ProductKey(product, version, normalizedArch, variant) ==
    Cat(<<"product", ":">>, Join(<<product, version, normalizedArch, variant>>, ":"))

InvalidPathResponse ==
    Response("text",
             <<"Invalid path format. Expected", ":", " ", "/", "images", "/", "{product}", "/",
               "{version}", "/", "{arch}", "/", "{variant}", "/", "{versionKey}", "/",
               "{filename}">>,
             400, TextPlain)

\* mutant of NotFoundResponse: answered as a client error
NotFoundResponse_400(product, version, normalizedArch, variant) ==
    Response("text",
             Cat3(<<"Product not found for ">>,
                  Join(<<product, version, normalizedArch, variant>>, "/"),
                  <<". Image may not be available yet.">>),
             400, TextPlain)

NotFoundResponse(product, version, normalizedArch, variant) ==
    Response("text",
             Cat3(<<"Product not found for ">>,
                  Join(<<product, version, normalizedArch, variant>>, "/"),
                  <<". Image may not be available yet.">>),
             404, TextPlain)

\* mutant of InvalidMetadataResponse: answered as a client error
InvalidMetadataResponse_400(productKey) ==
    Response("text", Cat(<<"Invalid metadata format for ">>, productKey), 400, TextPlain)

InvalidMetadataResponse(productKey) ==
    Response("text", Cat(<<"Invalid metadata format for ">>, productKey), 500, TextPlain)

UnknownFileResponse(filename) ==
    Response("text",
             Cat3(<<"Unknown file", ":", " ">>, filename,
                  <<". Expected incus.tar.xz, lxd.tar.xz, or disk.qcow2">>),
             400, TextPlain)

IsMetaFile(filename) == filename = <<"incus.tar.xz">> \/ filename = <<"lxd.tar.xz">>

\* mutant of IsDiskFile: whatever is not a metadata file is a disk file
IsDiskFile_Else(filename) == ~IsMetaFile(filename)

IsDiskFile(filename) == filename = <<"disk.qcow2">> \/ filename = <<"disk-kvm.img">>

ConfigGithubOrg == <<"windsorcli">>

DefaultSchematicId ==
    <<"376567988ad370138ad8b2698212367b8edcb69b5fd68c80be1f2ec7d603b4ba">>

\* the runs of the model's inputs whose first character is 'v'
RunsStartingWithV == {"v", "v1", "v1.12.0"}

\* mutant of StartsWithV: every version is taken to start with 'v'
StartsWithV_Always(s) == TRUE

\* String.prototype.startsWith('v')
StartsWithV(s) == s # <<>> /\ s[1] \in RunsStartingWithV

\* mutant of GithubUrl: the record's explicit source URL, when it has one,
\* is taken for the metadata artifact too
GithubUrl_RecordSource(environment, metadata, product, version, normalizedArch) ==
    LET githubOrg == OrElse(environment.GITHUB_ORG, ConfigGithubOrg)
        githubRepo == OrElse(Prop(metadata, "github_repo"), product)
        filenamePrefix == OrElse(Prop(metadata, "filename_prefix"), product)
        githubFilename == Cat3(filenamePrefix, Cat3(<<"-">>, normalizedArch, <<"-">>),
                               <<"incus.tar.xz">>)
    IN  IF Truthy(Prop(metadata, "talos_factory_url"))
        THEN ToStr(Prop(metadata, "talos_factory_url"))
        ELSE Cat(<<"https", ":", "/", "/", "github.com", "/">>,
                 Join(<<githubOrg, githubRepo, <<"releases">>, <<"download">>, version,
                        githubFilename>>, "/"))

\* the GitHub release asset of the metadata artifact
GithubUrl(environment, metadata, product, version, normalizedArch) ==
    LET githubOrg == OrElse(environment.GITHUB_ORG, ConfigGithubOrg)
        githubRepo == OrElse(Prop(metadata, "github_repo"), product)
        filenamePrefix == OrElse(Prop(metadata, "filename_prefix"), product)
        githubFilename == Cat3(filenamePrefix, Cat3(<<"-">>, normalizedArch, <<"-">>),
                               <<"incus.tar.xz">>)
    IN  Cat(<<"https", ":", "/", "/", "github.com", "/">>,
            Join(<<githubOrg, githubRepo, <<"releases">>, <<"download">>, version,
                   githubFilename>>, "/"))

\* the disk artifact's origin: the record's URL, or the image factory's
FactoryUrl(metadata, version, normalizedArch) ==
    IF Truthy(Prop(metadata, "talos_factory_url"))
    THEN ToStr(Prop(metadata, "talos_factory_url"))
    ELSE LET schematicId == OrElse(Prop(metadata, "talos_schematic_id"), DefaultSchematicId)
             factoryVersion == IF StartsWithV(version) THEN version
                               ELSE Cat(<<"v">>, version)
         IN  Cat(<<"https", ":", "/", "/", "factory.talos.dev", "/">>,
                 Join(<<<<"image">>, schematicId, factoryVersion,
                        Cat3(<<"metal-">>, normalizedArch, <<".qcow2">>)>>, "/"))

\* `${protocol}//${host}${pathname}` of the request URL
ProxyUrl(u) == Cat(Cat3(u.protocol, <<"/", "/">>, u.host), u.pathname)

UpstreamErrorResponse(status) ==
    Response("text", <<"Upstream error", ":", " " \o ToString(status)>>, status, TextPlain)

\* the catch block of the fetch: `Error: ${error.message}`
FetchFailedResponse(message) ==
    Response("text", <<"Error", ":", " " \o message>>, 500, TextPlain)

\* the upstream headers with the Incus headers set
IncusHeaders(upstreamHeaders, hash, proxyUrl) ==
    SetHeader(SetHeader(SetHeader(upstreamHeaders,
        "Incus-Image-Hash", ToStr(hash)),
        "Incus-Image-URL", proxyUrl),
        "Access-Control-Allow-Origin", <<"*">>)

StreamResponse(status, headers) == Response("stream", <<>>, status, headers)

(***************************************************************************)
(* A request in flight.  pc is the await the handler is suspended at:      *)
(*   "dl_get"   handleImageDownload, at env.IMAGE_HASHES.get(productKey)   *)
(*   "dl_fetch" handleImageDownload, at fetch(sourceUrl)                   *)
(*   "ix_get"   handleIndex, at getAllProducts                             *)
(*   "im_list"  getAllImageMetadata, at getAllProducts                     *)
(*   "im_rec"   getAllImageMetadata, at env.IMAGE_HASHES.get(kvProductKey) *)
(* "done" once the response is returned, "threw" when the handler ended    *)
(* with an uncaught exception.                                             *)
(***************************************************************************)
IdleRequest ==
    [pc |-> "idle", url |-> Url(<<>>, <<>>), m |-> NoMatch,
     normalizedArch |-> <<>>, productKey |-> <<>>,
     hash |-> Undef, sourceUrl |-> <<>>, proxyUrl |-> <<>>,
     upstream |-> NoUpstream, resp |-> NoResponse,
     list |-> <<>>, i |-> 0, images |-> <<>>,
     reads |-> <<>>, fetched |-> <<>>]

Return(q, response) == [q EXCEPT !.pc = "done", !.resp = response]

Throw(q) == [q EXCEPT !.pc = "threw"]

\* mutant of DownloadStart: the registry key is built from the version key
\* in place of the version
DownloadStart_ByVersionKey(q, u) ==
    LET m == SimplestreamsMatch(u.pathname)
        normalizedArch == NormalizeArch(m.arch)
        productKey == ProductKey(m.product, m.versionKey, normalizedArch, m.variant)
    IN  IF ~m.ok
        THEN Return([q EXCEPT !.url = u], InvalidPathResponse)
        ELSE [q EXCEPT !.pc = "dl_get", !.url = u, !.m = m,
                       !.normalizedArch = normalizedArch,
                       !.productKey = productKey,
                       !.reads = Append(@, productKey)]

\* handleImageDownload up to its registry read (lines 246-278)
DownloadStart(q, u) ==
    LET m == SimplestreamsMatch(u.pathname)
        normalizedArch == NormalizeArch(m.arch)
        productKey == ProductKey(m.product, m.version, normalizedArch, m.variant)
    IN  IF ~m.ok
        THEN Return([q EXCEPT !.url = u], InvalidPathResponse)
        ELSE [q EXCEPT !.pc = "dl_get", !.url = u, !.m = m,
                       !.normalizedArch = normalizedArch,
                       !.productKey = productKey,
                       !.reads = Append(@, productKey)]

\* mutant of Classify: disk-kvm.img is taken for a metadata file
Classify_DiskKvmAsMeta(filename) ==
    IF IsMetaFile(filename) \/ filename = <<"disk-kvm.img">> THEN "meta"
    ELSE IF IsDiskFile(filename) THEN "disk"
    ELSE "unknown"

\* the file requested: "meta", "disk" or "unknown" (lines 302, 310, 325)
Classify(filename) ==
    IF IsMetaFile(filename) THEN "meta"
    ELSE IF IsDiskFile(filename) THEN "disk"
    ELSE "unknown"

\* handleImageDownload from the registry's answer to its fetch (lines 280-335)
DownloadResolve(q, environment, metadataJson) ==
    LET class == Classify(q.m.filename)
    IN  IF Falsy(metadataJson)
        THEN Return(q, NotFoundResponse(q.m.product, q.m.version, q.normalizedArch,
                                        q.m.variant))
        ELSE IF JsonParseThrows(metadataJson)
        THEN Return(q, InvalidMetadataResponse(q.productKey))
        ELSE IF class = "unknown"
        THEN Return(q, UnknownFileResponse(q.m.filename))
        ELSE IF PropThrows(metadataJson)
        THEN Throw(q)
        ELSE LET hash == IF class = "meta" THEN Prop(metadataJson, "meta_hash")
                         ELSE Prop(metadataJson, "disk_hash")
                 sourceUrl == IF class = "meta"
                              THEN GithubUrl(environment, metadataJson, q.m.product,
                                             q.m.version, q.normalizedArch)
                              ELSE FactoryUrl(metadataJson, q.m.version, q.normalizedArch)
             IN  [q EXCEPT !.pc = "dl_fetch", !.hash = hash, !.sourceUrl = sourceUrl,
                           !.proxyUrl = ProxyUrl(q.url),
                           !.fetched = Append(@, sourceUrl)]

\* mutant of DownloadRespond: a non-success status is fetched once more
DownloadRespond_Retry(q, response) ==
    IF response.threw
    THEN Return(q, FetchFailedResponse("fetch failed"))
    ELSE LET q1 == [q EXCEPT !.upstream = response]
         IN  IF ~Ok(response.status)
             THEN IF Len(q.fetched) < 2
                  THEN [q1 EXCEPT !.fetched = Append(@, q.sourceUrl)]
                  ELSE Return(q1, UpstreamErrorResponse(response.status))
             ELSE Return(q1, StreamResponse(response.status,
                               IncusHeaders(response.headers, q.hash, q.proxyUrl)))

\* handleImageDownload from the upstream's answer on (lines 335-361)
DownloadRespond(q, response) ==
    IF response.threw
    THEN Return(q, FetchFailedResponse("fetch failed"))
    ELSE LET q1 == [q EXCEPT !.upstream = response]
         IN  IF ~Ok(response.status)
             THEN IF ResponseCtorThrows(TRUE, response.status)
                  THEN Return(q1, FetchFailedResponse("Response cannot have a body"))
                  ELSE Return(q1, UpstreamErrorResponse(response.status))
             ELSE IF ResponseCtorThrows(response.status \notin NullBodyStatuses,
                                        response.status)
                  THEN Return(q1, FetchFailedResponse("Response cannot have a body"))
                  ELSE Return(q1, StreamResponse(response.status,
                                    IncusHeaders(response.headers, q.hash, q.proxyUrl)))

(***************************************************************************)
(* getAllProducts and handleIndex                                          *)
(***************************************************************************)
\* getAllProducts: what JSON.parse returns, [] for a missing or broken list
GetAllProducts(productsListJson) ==
    IF Falsy(productsListJson) \/ JsonParseThrows(productsListJson)
    THEN JsonArray(<<>>)
    ELSE productsListJson

\* mutant of WireKeyOf: the namespace segment is not compared
WireKeyOf_AnyNamespace(kvKey) ==
    LET parts == Split(kvKey, ":")
    IN  IF Len(parts) = 5
        THEN [null |-> FALSE, key |-> Join(SubSeq(parts, 2, Len(parts)), ":")]
        ELSE [null |-> TRUE, key |-> <<>>]

\* mutant of WireKeyOf: a key that holds a '/' has no wire key
WireKeyOf_NoSlash(kvKey) ==
    LET parts == Split(kvKey, ":")
    IN  IF Len(parts) = 5 /\ parts[1] = <<"product">>
           /\ \A i \in 1..Len(kvKey) : kvKey[i] # "/"
        THEN [null |-> FALSE, key |-> Join(SubSeq(parts, 2, Len(parts)), ":")]
        ELSE [null |-> TRUE, key |-> <<>>]

\* the callback of kvProducts.map (lines 176-183): a registry key's wire
\* key, or null
WireKeyOf(kvKey) ==
    LET parts == Split(kvKey, ":")
    IN  IF Len(parts) = 5 /\ parts[1] = <<"product">>
        THEN [null |-> FALSE, key |-> Join(SubSeq(parts, 2, Len(parts)), ":")]
        ELSE [null |-> TRUE, key |-> <<>>]

RECURSIVE MapWireKeys(_)
MapWireKeys(kvProducts) ==
    IF kvProducts = <<>> THEN <<>>
    ELSE <<WireKeyOf(Head(kvProducts))>> \o MapWireKeys(Tail(kvProducts))

\* mutant of FilterBoolean: nothing is dropped, a null stays as an empty element
RECURSIVE FilterBoolean_KeepNull(_)
FilterBoolean_KeepNull(mapped) ==
    IF mapped = <<>> THEN <<>>
    ELSE <<Head(mapped).key>> \o FilterBoolean_KeepNull(Tail(mapped))

\* .filter(Boolean): null and "" are dropped
RECURSIVE FilterBoolean(_)
FilterBoolean(mapped) ==
    IF mapped = <<>> THEN <<>>
    ELSE LET x == Head(mapped)
         IN  (IF x.null \/ x.key = <<>> THEN <<>> ELSE <<x.key>>)
             \o FilterBoolean(Tail(mapped))

SimplestreamsProducts(kvProducts) == FilterBoolean(MapWireKeys(kvProducts))

JsonHeaders ==
    [n \in {"Content-Type", "Access-Control-Allow-Origin"} |->
        IF n = "Content-Type" THEN <<"application", "/", "json">> ELSE <<"*">>]

IndexResponse(simplestreamsProducts) ==
    [Response("index", <<>>, 200, JsonHeaders) EXCEPT !.products = simplestreamsProducts]

IndexStart(q, u) ==
    [q EXCEPT !.pc = "ix_get", !.url = u, !.reads = Append(@, ProductsListKey)]

\* mutant of IndexRespond: the record of every listed key is read as well
IndexRespond_ReadsRecords(q, productsListJson) ==
    LET kvProducts == GetAllProducts(productsListJson)
    IN  IF kvProducts.kind # "array"
        THEN Throw(q)
        ELSE Return([q EXCEPT !.reads = @ \o kvProducts.arr],
                    IndexResponse(SimplestreamsProducts(kvProducts.arr)))

\* handleIndex from the registry's answer on (lines 173-203)
IndexRespond(q, productsListJson) ==
    LET kvProducts == GetAllProducts(productsListJson)
    IN  IF kvProducts.kind # "array"
        THEN Throw(q)
        ELSE Return(q, IndexResponse(SimplestreamsProducts(kvProducts.arr)))

(***************************************************************************)
(* getAllImageMetadata and handleImages                                    *)
(*                                                                         *)
(* A JavaScript object is modelled as the sequence of its [key, value]     *)
(* entries in insertion order, the order JSON.stringify emits them in.     *)
(***************************************************************************)
HasKey(obj, key) == \E i \in 1..Len(obj) : obj[i].key = key

Lookup(obj, key) == obj[CHOOSE i \in 1..Len(obj) : obj[i].key = key].value

\* obj[key] = value: a new key goes last, a known key keeps its place
Put(obj, key, value) ==
    IF HasKey(obj, key)
    THEN [i \in 1..Len(obj) |->
            IF obj[i].key = key THEN [key |-> key, value |-> value] ELSE obj[i]]
    ELSE Append(obj, [key |-> key, value |-> value])

\* a text as the sequence of its characters, cut into tokens
RECURSIVE Tokens(_)
Tokens(chars) ==
    IF chars = <<>> THEN <<>> ELSE Cat(<<Head(chars)>>, Tokens(Tail(chars)))

\* String(n) for an integer n, as the sequence of its characters
RECURSIVE DecimalDigits(_)
DecimalDigits(n) ==
    IF n < 0 THEN <<"-">> \o DecimalDigits(0 - n)
    ELSE IF n < 10 THEN <<ToString(n)>>
    ELSE DecimalDigits(n \div 10) \o <<ToString(n % 10)>>

\* mutant of PadStart: nothing is padded
PadStart_None(chars, targetLength, padString) == chars

\* String.prototype.padStart(targetLength, padString), padString one character
PadStart(chars, targetLength, padString) ==
    IF Len(chars) >= targetLength THEN chars
    ELSE [i \in 1..(targetLength - Len(chars)) |-> padString] \o chars

\* the UTC calendar fields of new Date(seconds * 1000), in the proleptic
\* Gregorian calendar
UtcFields(seconds) ==
    LET days == seconds \div 86400
        secs == seconds % 86400
        z    == days + 719468
        era  == z \div 146097
        doe  == z % 146097
        yoe  == (doe - doe \div 1460 + doe \div 36524 - doe \div 146096) \div 365
        doy  == doe - (365 * yoe + yoe \div 4 - yoe \div 100)
        mp   == (5 * doy + 2) \div 153
        month == IF mp < 10 THEN mp + 3 ELSE mp - 9
    IN  [year    |-> yoe + era * 400 + (IF month <= 2 THEN 1 ELSE 0),
         month   |-> month,
         day     |-> doy - (153 * mp + 2) \div 5 + 1,
         hours   |-> secs \div 3600,
         minutes |-> (secs % 3600) \div 60]

\* `${year}${month}${day}_${hours}:${minutes}` (lines 98-104), character
\* by character
VersionKeyChars(seconds) ==
    LET d == UtcFields(seconds)
        year == DecimalDigits(d.year)
        month == PadStart(DecimalDigits(d.month), 2, "0")
        day == PadStart(DecimalDigits(d.day), 2, "0")
        hours == PadStart(DecimalDigits(d.hours), 2, "0")
        minutes == PadStart(DecimalDigits(d.minutes), 2, "0")
    IN  year \o month \o day \o <<"_">> \o hours \o <<":">> \o minutes

VersionKeyOf(seconds) == Tokens(VersionKeyChars(seconds))

\* the version key of a Date that holds NaN
NaNVersionKey == <<"NaNNaNNaN_NaN", ":", "NaN">>

\* mutant of VersionKey: the clock is read whatever the record holds
VersionKey_Now(creation_date, now) == VersionKeyOf(now)

\* metadata.creation_date ? parseInt(metadata.creation_date)
\*                        : Math.floor(Date.now() / 1000), then the version key;
\* the model's string-valued creation dates are not numerals
VersionKey(creation_date, now) ==
    IF ~Truthy(creation_date) THEN VersionKeyOf(now)
    ELSE IF creation_date.t = "number" THEN VersionKeyOf(creation_date.n)
    ELSE NaNVersionKey

\* the runs of the model's inputs, with the first letter in upper case
UpperFirstRun(t) ==
    CASE t = "talos"  -> "Talos"
      [] t = "alpine" -> "Alpine"
      [] OTHER        -> t

\* os.charAt(0).toUpperCase() + os.slice(1)
Capitalize(os) ==
    IF os = <<>> THEN <<>> ELSE <<UpperFirstRun(os[1])>> \o Tail(os)

\* `images/${os}/${version}/${arch}/${variant}/${versionKey}/${file}` (lines 110-111)
ImagePath(os, version, arch, variant, versionKey, file) ==
    Cat(<<"images", "/">>, Join(<<os, version, arch, variant, versionKey, file>>, "/"))

Aliases(os, version, arch, variant) ==
    Cat(Cat3(Join(<<os, version, arch, variant>>, "/"), <<",">>,
             Join(<<os, version, arch>>, "/")),
        Cat(<<",">>, Join(<<os, version>>, "/")))

\* the product entry created on a wire key's first encounter (lines 84-93)
NewProduct(os, version, arch, variant) ==
    [aliases |-> Aliases(os, version, arch, variant),
     arch |-> arch,
     os |-> Capitalize(os),
     release |-> version,
     release_title |-> version,
     variant |-> variant,
     versions |-> <<>>]

Item(ftype, sha256, size, path, combined) ==
    [ftype |-> ftype, sha256 |-> sha256, size |-> size, path |-> path,
     combined |-> combined]

\* mutant of VersionItems: the disk item carries the metadata artifact's
\* hash and size
VersionItems_MetaOnDisk(metadata, metaPath, diskPath) ==
    <<[key |-> <<"incus.tar.xz">>,
       value |-> Item(<<"incus.tar.xz">>, Prop(metadata, "meta_hash"),
                      Prop(metadata, "meta_size"), metaPath,
                      Prop(metadata, "combined_hash"))],
      [key |-> <<"disk.qcow2">>,
       value |-> Item(<<"disk-kvm.img">>, Prop(metadata, "meta_hash"),
                      Prop(metadata, "meta_size"), diskPath, Undef)],
      [key |-> <<"lxd.tar.xz">>,
       value |-> Item(<<"lxd.tar.xz">>, Prop(metadata, "meta_hash"),
                      Prop(metadata, "meta_size"), metaPath,
                      Prop(metadata, "combined_hash"))]>>

\* mutant of VersionItems: no compatibility item
VersionItems_NoCompat(metadata, metaPath, diskPath) ==
    <<[key |-> <<"incus.tar.xz">>,
       value |-> Item(<<"incus.tar.xz">>, Prop(metadata, "meta_hash"),
                      Prop(metadata, "meta_size"), metaPath,
                      Prop(metadata, "combined_hash"))],
      [key |-> <<"disk.qcow2">>,
       value |-> Item(<<"disk-kvm.img">>, Prop(metadata, "disk_hash"),
                      Prop(metadata, "disk_size"), diskPath, Undef)]>>

\* the items of one version entry (lines 117-147); combined is the item's
\* 'combined_disk-kvm-img_sha256'
VersionItems(metadata, metaPath, diskPath) ==
    <<[key |-> <<"incus.tar.xz">>,
       value |-> Item(<<"incus.tar.xz">>, Prop(metadata, "meta_hash"),
                      Prop(metadata, "meta_size"), metaPath,
                      Prop(metadata, "combined_hash"))],
      [key |-> <<"disk.qcow2">>,
       value |-> Item(<<"disk-kvm.img">>, Prop(metadata, "disk_hash"),
                      Prop(metadata, "disk_size"), diskPath, Undef)],
      [key |-> <<"lxd.tar.xz">>,
       value |-> Item(<<"lxd.tar.xz">>, Prop(metadata, "meta_hash"),
                      Prop(metadata, "meta_size"), metaPath,
                      Prop(metadata, "combined_hash"))]>>

\* the registry keys the loop does not skip (line 69)
IsProductKey(kvProductKey) ==
    LET parts == Split(kvProductKey, ":")
    IN  Len(parts) = 5 /\ parts[1] = <<"product">>

\* one pass of the loop body for a key that is not skipped (lines 71-151)
AddImage(images, kvProductKey, metadataJson, now) ==
    LET parts == Split(kvProductKey, ":")
        os == parts[2]
        version == parts[3]
        arch == parts[4]
        variant == parts[5]
        simplestreamsKey == Join(<<os, version, arch, variant>>, ":")
        images1 == IF HasKey(images, simplestreamsKey) THEN images
                   ELSE Put(images, simplestreamsKey,
                            NewProduct(os, version, arch, variant))
        versionKey == VersionKey(Prop(metadataJson, "creation_date"), now)
        metaPath == ImagePath(os, version, arch, variant, versionKey, <<"incus.tar.xz">>)
        diskPath == ImagePath(os, version, arch, variant, versionKey, <<"disk.qcow2">>)
        product == Lookup(images1, simplestreamsKey)
    IN  IF Falsy(metadataJson) \/ JsonParseThrows(metadataJson)
        THEN images
        ELSE IF PropThrows(metadataJson)
        THEN images1
        ELSE Put(images1, simplestreamsKey,
                 [product EXCEPT !.versions =
                    Put(@, versionKey, VersionItems(metadataJson, metaPath, diskPath))])

\* the next key at or after position i that the loop does not skip, 0 if none
NextProductKey(list, i) ==
    LET rest == {j \in i..Len(list) : IsProductKey(list[j])}
    IN  IF rest = {} THEN 0 ELSE CHOOSE j \in rest : \A k \in rest : j <= k

ImagesResponse(images) ==
    [Response("images", <<>>, 200, JsonHeaders) EXCEPT !.doc = images]

ImagesStart(q, u) ==
    [q EXCEPT !.pc = "im_list", !.url = u, !.reads = Append(@, ProductsListKey)]

\* the loop from position i to its next registry read, or to the response
ImagesLoop(q, i) ==
    LET j == NextProductKey(q.list, i)
    IN  IF j = 0
        THEN Return(q, ImagesResponse(q.images))
        ELSE [q EXCEPT !.pc = "im_rec", !.i = j, !.reads = Append(@, q.list[j])]

\* getAllImageMetadata from the registry's answer to getAllProducts on
ImagesList(q, productsListJson) ==
    LET products == GetAllProducts(productsListJson)
    IN  IF products.kind # "array"
        THEN Throw(q)
        ELSE ImagesLoop([q EXCEPT !.list = products.arr], 1)

\* getAllImageMetadata from the registry's answer for the key at position i on
ImagesRecord(q, metadataJson, now) ==
    ImagesLoop([q EXCEPT !.images = AddImage(@, q.list[q.i], metadataJson, now)],
               q.i + 1)

(***************************************************************************)
(* The router (export default fetch, lines 382-402)                        *)
(***************************************************************************)
IndexPathname == <<"/", "streams", "/", "v1", "/", "index.json">>

ImagesPathname == <<"/", "streams", "/", "v1", "/", "images.json">>

\* url.pathname.match(/^\/images\/[^\/]+\//)
IsDownloadPathname(pathname) ==
    /\ Len(pathname) >= 4
    /\ SubSeq(pathname, 1, 3) = <<"/", "images", "/">>
    /\ LET pieces == Split(SubSeq(pathname, 4, Len(pathname)), "/")
       IN  Len(pieces) >= 2 /\ pieces[1] # <<>>

Route(pathname) ==
    IF pathname = IndexPathname THEN "index"
    ELSE IF pathname = ImagesPathname THEN "images"
    ELSE IF IsDownloadPathname(pathname) THEN "download"
    ELSE "notfound"

RouterNotFoundResponse == Response("text", <<"Not Found">>, 404, NoHeaders)

(***************************************************************************)
(* Actions                                                                 *)
(***************************************************************************)
\* a request arrives: the router, and the handler up to its first await
Receive(r, u) ==
    /\ req[r].pc = "idle"
    /\ req' = [req EXCEPT ![r] =
                 CASE Route(u.pathname) = "index"    -> IndexStart(@, u)
                   [] Route(u.pathname) = "images"   -> ImagesStart(@, u)
                   [] Route(u.pathname) = "download" -> DownloadStart(@, u)
                   [] OTHER -> Return([@ EXCEPT !.url = u], RouterNotFoundResponse)]
    /\ UNCHANGED <<kv, env, pub>>

\* the registry answers handleIndex
IndexResume(r) ==
    /\ req[r].pc = "ix_get"
    /\ req' = [req EXCEPT ![r] = IndexRespond(@, KvGet(kv, ProductsListKey))]
    /\ UNCHANGED <<kv, env, pub>>

\* the registry answers getAllImageMetadata's getAllProducts
ImagesListResume(r) ==
    /\ req[r].pc = "im_list"
    /\ req' = [req EXCEPT ![r] = ImagesList(@, KvGet(kv, ProductsListKey))]
    /\ UNCHANGED <<kv, env, pub>>

\* the registry answers getAllImageMetadata's read of a record; Date.now()
\* is whatever the clock shows then
ImagesRecordResume(r, now) ==
    /\ req[r].pc = "im_rec"
    /\ req' = [req EXCEPT ![r] = ImagesRecord(@, KvGet(kv, @.list[@.i]), now)]
    /\ UNCHANGED <<kv, env, pub>>

\* the registry answers handleImageDownload
DownloadGetResume(r) ==
    /\ req[r].pc = "dl_get"
    /\ req' = [req EXCEPT ![r] = DownloadResolve(@, env, KvGet(kv, @.productKey))]
    /\ UNCHANGED <<kv, env, pub>>

\* mutant of DownloadFetchResume: the upstream's answer is handed to every
\* request that waits for one
DownloadFetchResume_Shared(r, response) ==
    /\ req[r].pc = "dl_fetch"
    /\ req' = [s \in DOMAIN req |->
                 IF req[s].pc = "dl_fetch" THEN DownloadRespond(req[s], response)
                 ELSE req[s]]
    /\ UNCHANGED <<kv, env, pub>>

\* the upstream answers handleImageDownload
DownloadFetchResume(r, response) ==
    /\ req[r].pc = "dl_fetch"
    /\ req' = [req EXCEPT ![r] = DownloadRespond(@, response)]
    /\ UNCHANGED <<kv, env, pub>>

\* Math.floor(Date.now() / 1000): 2025-12-26 03:40 and 05:10 UTC
ClockReadings == {1766716800 + 3600, 1766716800 + 9000}

Environments == {[GITHUB_ORG |-> Undef]}

Init ==
    /\ kv \in Registries
    /\ env \in Environments
    /\ req = [r \in {1} |-> IdleRequest]
    /\ pub = <<>>

Next ==
    \/ \E r \in DOMAIN req, u \in RequestUrls : Receive(r, u)
    \/ \E r \in DOMAIN req : IndexResume(r)
    \/ \E r \in DOMAIN req : ImagesListResume(r)
    \/ \E r \in DOMAIN req, now \in ClockReadings : ImagesRecordResume(r, now)
    \/ \E r \in DOMAIN req : DownloadGetResume(r)
    \/ \E r \in DOMAIN req, response \in FetchOutcomes : DownloadFetchResume(r, response)

Spec == Init /\ [][Next]_vars

(***************************************************************************)
(* A client that calls the catalog endpoints one call after the other,     *)
(* over registries whose records differ in their creation_date             *)
(***************************************************************************)
\* metadata.creation_date: missing, 0, a number of seconds, or a text that
\* is no numeral
CreationDates ==
    {Undef, StrV(<<"soon">>)}
    \cup {NumV(t) : t \in {0, 59, 86399, 951782400, 1766716800, 1766716859,
                          2147483647, 0 - 1, 0 - 2147483647}}

DatedRecord(creation_date) ==
    JsonObject([ScenarioRecord EXCEPT !["creation_date"] = creation_date])

DatedRegistries ==
    {[k \in {ProductsListKey, K1, KN} |->
        CASE k = ProductsListKey -> JsonArray(<<K1, KN>>)
          [] k = K1 -> DatedRecord(d1)
          [] OTHER  -> DatedRecord(d2)] :
        d1 \in CreationDates, d2 \in CreationDates}

CatalogUrls == {Url(IndexPathname, <<>>), Url(ImagesPathname, <<>>)}

\* a request arrives once the client has the answer to its earlier ones
ReceiveNext(r, u) ==
    /\ \A earlier \in DOMAIN req :
          earlier < r => req[earlier].pc \in {"done", "threw"}
    /\ Receive(r, u)

InitCatalog ==
    /\ kv \in Registries \cup DatedRegistries
    /\ env \in Environments
    /\ req = [r \in {1, 2} |-> IdleRequest]
    /\ pub = <<>>

NextCatalog ==
    \/ \E r \in DOMAIN req, u \in CatalogUrls : ReceiveNext(r, u)
    \/ \E r \in DOMAIN req : IndexResume(r)
    \/ \E r \in DOMAIN req : ImagesListResume(r)
    \/ \E r \in DOMAIN req, now \in ClockReadings : ImagesRecordResume(r, now)

SpecCatalog == InitCatalog /\ [][NextCatalog]_vars

(***************************************************************************)
(* Properties of the download proxy                                        *)
(***************************************************************************)
\* the requests whose path matched the download grammar
Downloads == {r \in DOMAIN req : req[r].m.ok}

\* the registry key of a download's coordinates
RequestedKey(q) ==
    <<"product", ":">> \o q.m.product \o <<":">> \o q.m.version \o <<":">>
        \o q.normalizedArch \o <<":">> \o q.m.variant

\* what the registry holds for a download's coordinates
RequestedKind(q) ==
    IF RequestedKey(q) \in DOMAIN kv THEN kv[RequestedKey(q)].kind ELSE "absent"

RequestedField(q, name) == kv[RequestedKey(q)].obj[name]

MetaNames == {<<"incus.tar.xz">>, <<"lxd.tar.xz">>}

DiskNames == {<<"disk.qcow2">>, <<"disk-kvm.img">>}

\* the handler has the upstream's answer, and the answer is a status
Answered(q) == q.pc = "done" /\ q.fetched # <<>> /\ q.upstream.status # 0

\* C1: a download whose path matches the grammar and whose registry lookup
\* finds no record is answered 404, and it never fetches from an upstream.
C1_NoRecordIs404 ==
    \A r \in Downloads :
        RequestedKind(req[r]) = "absent" =>
            /\ req[r].fetched = <<>>
            /\ req[r].pc \in {"dl_get", "done"}
            /\ req[r].pc = "done" => req[r].resp.status = 404

C1_Witness ==
    \E r \in Downloads :
        /\ RequestedKind(req[r]) = "absent"
        /\ req[r].m.filename = <<"incus.tar.xz">>
        /\ req[r].pc = "done"
        /\ req[r].resp.status = 404

\* C2 (as claimed): whenever the upstream answers a non-success status s,
\* the client gets exactly status s, and the request fetched once.
C2_StatusPassedThrough ==
    \A r \in Downloads :
        (Answered(req[r]) /\ req[r].upstream.status \notin 200..299) =>
            /\ req[r].resp.status = req[r].upstream.status
            /\ Len(req[r].fetched) = 1

\* the request URL without its query string
UrlWithoutQuery(u) == u.protocol \o <<"/", "/">> \o u.host \o u.pathname

\* the request URL as sent
UrlAsSent(u) == UrlWithoutQuery(u) \o u.search

\* the headers a successful download must carry besides the canonical URL
SuccessHeaders(q) ==
    LET h == q.resp.headers
        field == IF q.m.filename \in MetaNames THEN "meta_hash" ELSE "disk_hash"
    IN  /\ q.resp.status = q.upstream.status
        /\ q.resp.kind = "stream"
        /\ DOMAIN h = DOMAIN q.upstream.headers
                        \cup {"Incus-Image-Hash", "Incus-Image-URL",
                              "Access-Control-Allow-Origin"}
        /\ \A n \in DOMAIN q.upstream.headers :
              n \notin {"Incus-Image-Hash", "Incus-Image-URL",
                        "Access-Control-Allow-Origin"} => h[n] = q.upstream.headers[n]
        /\ h["Access-Control-Allow-Origin"] = <<"*">>
        /\ q.m.filename \in MetaNames \cup DiskNames
        /\ RequestedField(q, field).t = "string" =>
              h["Incus-Image-Hash"] = RequestedField(q, field).s

Succeeded(q) == Answered(q) /\ q.upstream.status \in 200..299

\* C3 (amended): on a successful upstream fetch the response carries the
\* upstream status and headers plus Incus-Image-Hash, the hash the resolved
\* record stores for the requested artifact class, Incus-Image-URL, the
\* request URL without its query string, and Access-Control-Allow-Origin '*'.
C3_SuccessHeaders ==
    \A r \in Downloads :
        Succeeded(req[r]) =>
            /\ SuccessHeaders(req[r])
            /\ req[r].resp.headers["Incus-Image-URL"] = UrlWithoutQuery(req[r].url)

C3_Witness ==
    \E r \in Downloads :
        /\ Succeeded(req[r])
        /\ req[r].m.filename = <<"disk-kvm.img">>
        /\ req[r].resp.headers["Incus-Image-Hash"] = <<"bbb">>
        /\ "Incus-Image-Hash" \in DOMAIN req[r].upstream.headers

\* C3 (as claimed): the Incus-Image-URL header equals the request URL.
C3_UrlHeaderIsRequestUrl ==
    \A r \in Downloads :
        Succeeded(req[r]) =>
            /\ SuccessHeaders(req[r])
            /\ req[r].resp.headers["Incus-Image-URL"] = UrlAsSent(req[r].url)

Failed(q) == Answered(q) /\ q.upstream.status \notin 200..299

\* C4 (amended): when the upstream answers 503, or any non-success status,
\* the response carries no content-hash header; its status is the
\* upstream's, except for the null-body status 304, which is answered 500.
C4_NoHashOnUpstreamError ==
    \A r \in Downloads :
        Failed(req[r]) =>
            /\ "Incus-Image-Hash" \notin DOMAIN req[r].resp.headers
            /\ req[r].resp.status =
                  IF req[r].upstream.status = 304 THEN 500 ELSE req[r].upstream.status

C4_Witness ==
    \E r \in Downloads :
        /\ Failed(req[r])
        /\ req[r].upstream.status = 503
        /\ req[r].resp.status = 503
        /\ req[r].hash = StrV(<<"aaa">>)

\* C4 (as claimed): on a non-success upstream status the response has that
\* status and its content-hash header is set from the registry value.
C4_HashOnUpstreamError ==
    \A r \in Downloads :
        (Failed(req[r]) /\ req[r].upstream.status = 503) =>
            /\ req[r].resp.status = 503
            /\ "Incus-Image-Hash" \in DOMAIN req[r].resp.headers

\* the requests the router handed to the download proxy
Proxied ==
    {r \in DOMAIN req :
        LET p == req[r].url.pathname
        IN  /\ req[r].pc # "idle"
            /\ Len(p) >= 5
            /\ SubSeq(p, 1, 3) = <<"/", "images", "/">>
            /\ p[4] # "/"
            /\ \E i \in 5..Len(p) : p[i] = "/"}

\* C5 (amended): every response of the download endpoint has the upstream's
\* status or 400, 404 or 500: before the fetch a path mismatch and an
\* unrecognized filename are answered 400, a missing record 404 and an
\* unparsable record 500; a failed fetch is answered 500.
C5_DownloadStatuses ==
    \A r \in Proxied :
        LET q == req[r]
        IN  q.pc = "done" =>
              IF q.fetched = <<>>
              THEN /\ ~q.m.ok => q.resp.status = 400
                   /\ (q.m.ok /\ RequestedKind(q) \in {"absent", "empty"}) =>
                          q.resp.status = 404
                   /\ (q.m.ok /\ RequestedKind(q) = "garbage") => q.resp.status = 500
                   /\ (q.m.ok /\ RequestedKind(q) \in {"null", "array", "object"}) =>
                          (q.m.filename \notin MetaNames \cup DiskNames
                           /\ q.resp.status = 400)
              ELSE q.resp.status \in {q.upstream.status, 500}

C5_Witness ==
    \E r \in Proxied :
        /\ req[r].pc = "done"
        /\ req[r].fetched = <<>>
        /\ req[r].m.ok
        /\ RequestedKind(req[r]) = "garbage"
        /\ req[r].resp.status = 500

\* C5 (as claimed): every response of the download endpoint has the
\* upstream's status, or 400 for a failure found before the fetch.
C5_FailuresAre400 ==
    \A r \in Proxied :
        req[r].pc = "done" =>
            IF req[r].fetched = <<>>
            THEN req[r].resp.status = 400
            ELSE req[r].resp.status = req[r].upstream.status

Unrecognized(q) == q.m.filename \notin MetaNames \cup DiskNames

\* C6 (amended): a download whose filename is not recognized never fetches
\* from an upstream, whatever the registry holds; it is answered 400 when
\* the registry holds a parsable record for the coordinates, and, the
\* record being looked up first, 404 when it holds none and 500 when the
\* record is unparsable.
C6_UnknownFile ==
    \A r \in Downloads :
        Unrecognized(req[r]) =>
            /\ req[r].fetched = <<>>
            /\ req[r].pc \in {"dl_get", "done"}
            /\ req[r].pc = "done" =>
                  req[r].resp.status =
                      CASE RequestedKind(req[r]) \in {"absent", "empty"} -> 404
                        [] RequestedKind(req[r]) = "garbage" -> 500
                        [] OTHER -> 400

C6_Witness ==
    \E r \in Downloads :
        /\ Unrecognized(req[r])
        /\ RequestedKind(req[r]) = "object"
        /\ req[r].pc = "done"
        /\ req[r].resp.status = 400

\* C6 (as claimed): a download whose filename is not recognized is answered
\* 400 and fetches nothing, whatever the registry holds.
C6_UnknownFileAlways400 ==
    \A r \in Downloads :
        Unrecognized(req[r]) =>
            /\ req[r].fetched = <<>>
            /\ req[r].pc = "done" => req[r].resp.status = 400

KeySet ==
    IF ProductsListKey \in DOMAIN kv /\ kv[ProductsListKey].kind = "array"
    THEN kv[ProductsListKey].arr
    ELSE <<>>

\* a registry key of exactly five colon-separated segments, the first of
\* them the literal 'product'
WellFormedKey(k) ==
    /\ Cardinality({i \in 1..Len(k) : k[i] = ":"}) = 4
    /\ k[1] = "product"
    /\ k[2] = ":"

\* the key with its first segment and that segment's colon removed
WithoutNamespace(k) == SubSeq(k, 3, Len(k))

\* the positions of the Product Key Set that hold a well-formed key
WellFormedAt == {i \in 1..Len(KeySet) : WellFormedKey(KeySet[i])}

\* the well-formed keys whose record getAllImageMetadata can parse
Catalogued ==
    {KeySet[i] : i \in {j \in WellFormedAt :
        /\ KeySet[j] \in DOMAIN kv
        /\ kv[KeySet[j]].kind \in {"null", "array", "object"}}}

IndexDone == {r \in DOMAIN req : req[r].pc = "done" /\ req[r].resp.kind = "index"}

ImagesDone == {r \in DOMAIN req : req[r].pc = "done" /\ req[r].resp.kind = "images"}

\* s is the subsequence of t at the positions in at
IsSubsequenceAt(s, t, at) ==
    /\ Len(s) = Cardinality(at)
    /\ \A i \in at :
          s[Cardinality({j \in at : j <= i})] = WithoutNamespace(t[i])

\* C9: both catalog handlers turn a registry key of exactly five segments
\* whose first is 'product' into the key without that segment, and nothing
\* else, and drop every other key: the index lists exactly the well-formed
\* keys, in order, without their namespace, and the images document holds
\* exactly the well-formed keys that have a parsable record.
C9_WireKeys ==
    /\ \A r \in IndexDone :
          IsSubsequenceAt(req[r].resp.products, KeySet, WellFormedAt)
    /\ \A r \in ImagesDone :
          {req[r].resp.doc[i].key : i \in 1..Len(req[r].resp.doc)}
              = {WithoutNamespace(k) : k \in Catalogued}

C9_Witness ==
    /\ KeySet = <<K6, KS>>
    /\ \E r \in IndexDone : req[r].resp.products = <<WithoutNamespace(KS)>>

\* C10 (as claimed): the index's products list holds no wire key twice,
\* whatever the Product Key Set holds.
C10_NoDuplicateProducts ==
    \A r \in IndexDone :
        \A i, j \in 1..Len(req[r].resp.products) :
            i # j => req[r].resp.products[i] # req[r].resp.products[j]

\* C8 (as claimed): every path the images document embeds for the metadata
\* and the disk item is accepted by the download proxy's path parser, which
\* gives back the product's os, version, arch and variant, the version key
\* and the file name.
C8_PathRoundTrip ==
    \A r \in ImagesDone :
        \A i \in 1..Len(req[r].resp.doc) :
            LET wireKey == req[r].resp.doc[i].key
                product == req[r].resp.doc[i].value
            IN  \A v \in 1..Len(product.versions) :
                    \A f \in 1..Len(product.versions[v].value) :
                        LET file == product.versions[v].value[f]
                            m == SimplestreamsMatch(<<"/">> \o file.value.path)
                        IN  file.key \in {<<"incus.tar.xz">>, <<"disk.qcow2">>} =>
                              /\ m.ok
                              /\ m.product \o <<":">> \o m.version \o <<":">> \o m.arch
                                    \o <<":">> \o m.variant = wireKey
                              /\ m.version = product.release
                              /\ m.arch = product.arch
                              /\ m.variant = product.variant
                              /\ m.versionKey = product.versions[v].key
                              /\ m.filename = file.key

\* C11: every element of the index's products list is the wire key of a
\* well-formed entry of the Product Key Set, and an entry that is not well
\* formed leaves no element behind, neither a null nor an empty one: the
\* list is as long as the set has well-formed entries.
C11_OnlyParsableKeys ==
    \A r \in IndexDone :
        LET products == req[r].resp.products
        IN  /\ \A i \in 1..Len(products) :
                  /\ products[i] # <<>>
                  /\ \E j \in WellFormedAt : products[i] = WithoutNamespace(KeySet[j])
            /\ Len(products) = Cardinality(WellFormedAt)

C11_Witness ==
    /\ KeySet = <<K4, K1>>
    /\ \E r \in IndexDone : req[r].resp.products = <<WithoutNamespace(K1)>>

(***************************************************************************)
(* Properties of successive catalog builds                                 *)
(***************************************************************************)
\* the calls of the images endpoint that have ended
ImagesEnded ==
    {r \in DOMAIN req :
        req[r].url.pathname = ImagesPathname /\ req[r].pc \in {"done", "threw"}}

\* every catalogued record that is not null carries a creation timestamp
\* the code takes for one: a creation_date that is not 0 and not empty
Dated ==
    \A k \in Catalogued :
        kv[k].kind = "null" \/ Truthy(Prop(kv[k], "creation_date"))

\* C12 (amended): over an unchanged registry whose catalogued records all
\* carry a creation timestamp, two successive calls of the images endpoint
\* end alike: both fail, or both return the same document.
C12_Idempotent ==
    Dated =>
        \A r1, r2 \in ImagesEnded :
            /\ req[r1].pc = req[r2].pc
            /\ req[r1].resp = req[r2].resp

C12_Witness ==
    /\ Dated
    /\ Cardinality(Catalogued) = 2
    /\ \E r1, r2 \in ImagesEnded :
          /\ r1 # r2
          /\ req[r1].pc = "done"
          /\ Len(req[r1].resp.doc) = 2
          /\ req[r1].resp = req[r2].resp

\* C12 (as claimed): for every registry content, two successive calls of
\* the images endpoint return identical documents.
C12_IdempotentAlways ==
    \A r1, r2 \in ImagesEnded :
        (req[r1].pc = "done" /\ req[r2].pc = "done") => req[r1].resp = req[r2].resp

\* the requests the router handed to one of the two catalog handlers
CatalogCalls ==
    {r \in DOMAIN req :
        /\ req[r].pc # "idle"
        /\ req[r].url.pathname \in {IndexPathname, ImagesPathname}}

\* C13 (as claimed): whatever the registry holds under the Product Key Set
\* key and under the product keys, no call of a catalog endpoint fails: each
\* one that got its answers from the registry returns a catalog document.
C13_CatalogNeverFails ==
    \A r \in CatalogCalls :
        /\ req[r].pc # "threw"
        /\ req[r].pc = "done" => req[r].resp.kind \in {"index", "images"}

(***************************************************************************)
(* Properties of the codec                                                 *)
(***************************************************************************)
CanonicalArchs == {<<"arm64">>, <<"amd64">>}

DigitChars == {"0", "1", "2", "3", "4", "5", "6", "7", "8", "9"}

\* the catalogued keys whose record stores its creation timestamp as a
\* number of seconds
Numbered ==
    {k \in Catalogued :
        kv[k].kind = "object" /\ kv[k].obj["creation_date"].t = "number"}

Timestamp(k) == kv[k].obj["creation_date"].n

\* those whose timestamp lies in a year of four digits
Timestamped == {k \in Numbered : UtcFields(Timestamp(k)).year \in 1000..9999}

\* the times the version key of k's record can be derived from: its
\* timestamp, or the clock's readings when the code takes it for missing
TimesOf(k) == IF Timestamp(k) = 0 THEN ClockReadings ELSE {Timestamp(k)}

\* the version keys the document files the product of key k under
VersionKeysOf(doc, k) ==
    IF HasKey(doc, WithoutNamespace(k))
    THEN LET versions == Lookup(doc, WithoutNamespace(k)).versions
         IN  {versions[v].key : v \in 1..Len(versions)}
    ELSE {}

\* the characters are a version key of n characters: '_' at position 9,
\* ':' at position 12, digits elsewhere
IsVersionKeyOfLength(chars, n) ==
    /\ Len(chars) = n
    /\ chars[9] = "_"
    /\ chars[12] = ":"
    /\ \A i \in 1..Len(chars) : i \notin {9, 12} => chars[i] \in DigitChars

\* C15 (amended): for every creation timestamp a record stores as a number
\* of seconds of a year of four digits, the Version Key the images document
\* files the record under (derived from the timestamp, or from the clock
\* when the timestamp is 0) has the shape YYYYMMDD_HH:MM: 14 characters, '_'
\* at position 9, ':' at position 12, digits elsewhere.
C15_VersionKeyShape ==
    \A r \in ImagesDone :
        \A k \in Timestamped :
            /\ VersionKeysOf(req[r].resp.doc, k) # {}
            /\ \A versionKey \in VersionKeysOf(req[r].resp.doc, k) :
                  \E t \in TimesOf(k) :
                      /\ versionKey = Tokens(VersionKeyChars(t))
                      /\ IsVersionKeyOfLength(VersionKeyChars(t), 14)

C15_Witness ==
    \E r \in ImagesDone :
        \E k \in Timestamped :
            /\ Timestamp(k) = 951782400
            /\ VersionKeysOf(req[r].resp.doc, k) = {<<"20000229_00", ":", "00">>}

\* C15 (as claimed): the Version Key of every stored creation timestamp has
\* 15 characters, '_' at position 9, ':' at position 12, digits elsewhere.
C15_VersionKeyShape15 ==
    \A r \in ImagesDone :
        \A k \in Numbered :
            \A versionKey \in VersionKeysOf(req[r].resp.doc, k) :
                \E t \in TimesOf(k) :
                    /\ versionKey = Tokens(VersionKeyChars(t))
                    /\ IsVersionKeyOfLength(VersionKeyChars(t), 15)

\* the code of a character, for the characters of a version key
CharCode(c) ==
    CASE c = "-" -> 45
      [] c = ":" -> 58
      [] c = "_" -> 95
      [] OTHER   -> 48 + (CHOOSE d \in 0..9 : ToString(d) = c)

\* a <= b in string order
RECURSIVE StringLeq(_, _)
StringLeq(a, b) ==
    IF a = <<>> THEN TRUE
    ELSE IF b = <<>> THEN FALSE
    ELSE IF CharCode(Head(a)) # CharCode(Head(b))
         THEN CharCode(Head(a)) < CharCode(Head(b))
         ELSE StringLeq(Tail(a), Tail(b))

\* the characters of a version key of the document of key k
KeyChars(versionKey, k) ==
    VersionKeyChars(CHOOSE t \in TimesOf(k) : versionKey = Tokens(VersionKeyChars(t)))

\* C16 (as claimed): for any two creation timestamps t1 <= t2 stored in
\* records, every Version Key derived for t1 is at most every Version Key
\* derived for t2, in string order.
C16_Monotonic ==
    \A r \in ImagesDone :
        \A k1, k2 \in Numbered :
            Timestamp(k1) <= Timestamp(k2) =>
                \A v1 \in VersionKeysOf(req[r].resp.doc, k1),
                   v2 \in VersionKeysOf(req[r].resp.doc, k2) :
                    StringLeq(KeyChars(v1, k1), KeyChars(v2, k2))

(***************************************************************************)
(* The scenario of one published variant                                   *)
(***************************************************************************)
\* the registry holds the single key product:talos:v1.12.0:amd64:default,
\* with the record {creation_date: 1766716800, meta_hash: "aaa",
\* meta_size: 1024, disk_hash: "bbb", disk_size: 207000000,
\* combined_hash: "ccc"}
OneVariant ==
    /\ KvGet(kv, ProductsListKey) =
          JsonArray(<<<<"product", ":", "talos", ":", "v1.12.0", ":", "amd64", ":",
                        "default">>>>)
    /\ \A k \in DOMAIN kv \ {ProductsListKey} :
          kv[k] = IF k = <<"product", ":", "talos", ":", "v1.12.0", ":", "amd64", ":",
                           "default">>
                  THEN JsonObject(ScenarioRecord)
                  ELSE Absent

\* the items hold, under the file name, this hash and this size
HoldsItem(items, filename, sha256, size) ==
    \E i \in 1..Len(items) :
        /\ items[i].key = filename
        /\ items[i].value.sha256 = StrV(sha256)
        /\ items[i].value.size = NumV(size)

\* the document of the scenario: one product, one version, of the key
\* 20251226_02:40 (1766716800 is 02:40 UTC on 2025-12-26)
OneVariantDocument(doc) ==
    /\ Len(doc) = 1
    /\ doc[1].key = <<"talos", ":", "v1.12.0", ":", "amd64", ":", "default">>
    /\ Len(doc[1].value.versions) = 1
    /\ doc[1].value.versions[1].key = <<"20251226_02", ":", "40">>
    /\ HoldsItem(doc[1].value.versions[1].value, <<"incus.tar.xz">>, <<"aaa">>, 1024)
    /\ HoldsItem(doc[1].value.versions[1].value, <<"disk.qcow2">>, <<"bbb">>, 207000000)

\* C17 (amended): with the registry of the scenario, the index lists
\* talos:v1.12.0:amd64:default exactly once and nothing else, and the images
\* document holds for that product a versions map with exactly one key,
\* 20251226_02:40, whose items hold the metadata file with sha256 = meta_hash
\* and size 1024 and the disk file with sha256 = disk_hash and size
\* 207000000.
C17_OneVariant ==
    OneVariant =>
        /\ \A r \in IndexDone :
              req[r].resp.products =
                  <<<<"talos", ":", "v1.12.0", ":", "amd64", ":", "default">>>>
        /\ \A r \in ImagesDone : OneVariantDocument(req[r].resp.doc)
        /\ \A r \in CatalogCalls : req[r].pc # "threw"

C17_Witness ==
    /\ OneVariant
    /\ \E r \in ImagesDone : OneVariantDocument(req[r].resp.doc)

\* C17 (as claimed): with the registry of the scenario, the one key of the
\* versions map is 20251226_00:00.
C17_KeyAtMidnight ==
    OneVariant =>
        \A r \in ImagesDone :
            /\ Len(req[r].resp.doc) = 1
            /\ Len(req[r].resp.doc[1].value.versions) = 1
            /\ req[r].resp.doc[1].value.versions[1].key = <<"20251226_00", ":", "00">>

(***************************************************************************)
(* The fetch source of a disk download                                     *)
(***************************************************************************)
\* the downloads of a disk file that went as far as the upstream fetch
DiskFetches ==
    {r \in Downloads : req[r].m.filename \in DiskNames /\ req[r].fetched # <<>>}

\* the requested version with a leading 'v', for the versions requested
WithLeadingV(version) ==
    IF version = <<"1.12.0">> THEN <<"v1.12.0">> ELSE version

\* the default origin's URL of a disk image
DefaultOriginUrl(id, version, arch) ==
    <<"https", ":", "/", "/", "factory.talos.dev", "/", "image", "/">> \o id
        \o <<"/">> \o version \o <<"/", "metal-" \o arch[1] \o ".qcow2">>

\* the fetch source the claim names for a disk download
DiskSource(q) ==
    LET url == RequestedField(q, "talos_factory_url")
        id  == RequestedField(q, "talos_schematic_id")
    IN  IF url.t = "string" /\ url.s # <<>> THEN url.s
        ELSE DefaultOriginUrl(
                 IF id.t = "string" /\ id.s # <<>> THEN id.s
                 ELSE <<"376567988ad370138ad8b2698212367b8edcb69b5fd68c80be1f2ec7d603b4ba">>,
                 WithLeadingV(q.m.version), q.normalizedArch)

\* C18: a download of a disk file fetches from the record's explicit source
\* URL when the record carries one, and otherwise from the default origin's
\* URL, built from the record's build identifier, or the fixed default when
\* the record has none, the normalized architecture, and the requested
\* version with a leading 'v', added when the version lacks it.
C18_DiskSource ==
    \A r \in DiskFetches :
        /\ req[r].m.version \in {<<"v1.12.0">>, <<"1.12.0">>}
        /\ Len(req[r].normalizedArch) = 1
        /\ req[r].fetched = <<DiskSource(req[r])>>

C18_Witness ==
    \E r \in DiskFetches :
        /\ req[r].m.version = <<"1.12.0">>
        /\ RequestedField(req[r], "talos_factory_url") = Undef
        /\ RequestedField(req[r], "talos_schematic_id") = Undef
        /\ req[r].fetched =
              <<<<"https", ":", "/", "/", "factory.talos.dev", "/", "image", "/",
                  "376567988ad370138ad8b2698212367b8edcb69b5fd68c80be1f2ec7d603b4ba",
                  "/", "v1.12.0", "/", "metal-amd64.qcow2">>>>

(***************************************************************************)
(* Properties of the router                                                *)
(***************************************************************************)
\* the path starts with the download-path root, /images/
StartsWithRoot(pathname) ==
    Len(pathname) >= 3 /\ SubSeq(pathname, 1, 3) = <<"/", "images", "/">>

\* the request is in the hands of the download proxy, or was answered by it
AtDownloadProxy(q) ==
    \/ q.m.ok
    \/ /\ q.pc = "done"
       /\ q.resp.status = 400
       /\ q.resp.text[1] = "Invalid path format. Expected"

\* C19 (as claimed): the exact index path goes to buildIndex, the exact
\* images path to buildImages, every path that starts with /images/ to the
\* download proxy, which answers a malformed one with its client error, and
\* every other path gets the generic not-found response.
C19_Dispatch ==
    \A r \in DOMAIN req :
        LET q == req[r]
            pathname == q.url.pathname
        IN  q.pc # "idle" =>
              CASE pathname = <<"/", "streams", "/", "v1", "/", "index.json">> ->
                     q.pc \in {"ix_get", "threw"} \/ q.resp.kind = "index"
                [] pathname = <<"/", "streams", "/", "v1", "/", "images.json">> ->
                     q.pc \in {"im_list", "im_rec", "threw"} \/ q.resp.kind = "images"
                [] StartsWithRoot(pathname) -> AtDownloadProxy(q)
                [] OTHER ->
                     /\ q.pc = "done"
                     /\ q.resp.status = 404
                     /\ q.resp.text = <<"Not Found">>

(***************************************************************************)
(* The life of a download request                                          *)
(***************************************************************************)
Ended(q) == q.pc \in {"done", "threw"}

\* one step of a download request, from q to q1, keeps to
\* Parsed -> Resolved -> Fetching -> {Streaming | Failed}
DownloadStep(q, q1) ==
    /\ Ended(q) => q1 = q
    /\ Len(q1.reads) <= 1
    /\ Len(q1.fetched) <= 1
    /\ q1.pc = "dl_get" => (q.pc \in {"idle", "dl_get"} /\ q1.m.ok)
    /\ q1.pc = "dl_fetch" => q.pc \in {"dl_get", "dl_fetch"}
    /\ q1.fetched # <<>> =>
          /\ q1.m.ok
          /\ q1.reads = <<RequestedKey(q1)>>
          /\ RequestedKind(q1) = "object"
          /\ q1.m.filename \in MetaNames \cup DiskNames
    /\ q1.resp.kind = "stream" =>
          (q1.pc = "done" /\ q.pc \in {"dl_fetch", "done"} /\ q1.fetched # <<>>)

\* C20: a download request reads the registry at most once and fetches at
\* most once, and only after its path was parsed, its record was found and
\* parsed and its file name was classified; once it streams or has failed
\* it takes no further step.
C20_Lifecycle ==
    [][\A r \in DOMAIN req :
          StartsWithRoot(req'[r].url.pathname) => DownloadStep(req[r], req'[r])]_vars

C20_Witness ==
    \E r \in Downloads :
        /\ req[r].pc = "done"
        /\ req[r].resp.kind = "stream"
        /\ req[r].reads = <<K1>>
        /\ Len(req[r].fetched) = 1

(***************************************************************************)
(* The registry reads of an index request                                  *)
(***************************************************************************)
\* the requests the router handed to handleIndex
IndexCalls ==
    {r \in DOMAIN req :
        req[r].pc # "idle" /\ req[r].url.pathname = IndexPathname}

\* C21: an index request reads the registry exactly once, under the key of
\* the Product Key Set, from its first step to its end, and reads the record
\* of no product, however many keys the set holds.
C21_OneRead ==
    \A r \in IndexCalls : req[r].reads = <<<<"products", ":", "list">>>>

C21_Witness ==
    \E r \in IndexDone :
        /\ Len(KeySet) = MaxList
        /\ Len(req[r].resp.products) = MaxList
        /\ K1 \in DOMAIN kv /\ kv[K1].kind = "object"
        /\ req[r].reads = <<<<"products", ":", "list">>>>

(***************************************************************************)
(* The fetch source of a metadata download                                 *)
(***************************************************************************)
\* the downloads of a metadata file that went as far as the upstream fetch
MetaFetches ==
    {r \in Downloads : req[r].m.filename \in MetaNames /\ req[r].fetched # <<>>}

\* the code-release URL of a metadata artifact
ReleaseUrl(org, repo, prefix, arch, version) ==
    <<"https", ":", "/", "/", "github.com", "/">> \o org \o <<"/">> \o repo
        \o <<"/", "releases", "/", "download", "/">> \o version
        \o <<"/", prefix[1] \o "-" \o arch[1] \o "-incus.tar.xz">>

\* a field of the record, or the default when the record has none
FieldOr(q, name, dflt) ==
    LET x == RequestedField(q, name)
    IN  IF x.t = "string" /\ x.s # <<>> THEN x.s ELSE dflt

\* the fetch source the claim names for a metadata download
MetaSource(q) ==
    ReleaseUrl(IF env.GITHUB_ORG.t = "string" /\ env.GITHUB_ORG.s # <<>>
               THEN env.GITHUB_ORG.s ELSE <<"windsorcli">>,
               FieldOr(q, "github_repo", q.m.product),
               FieldOr(q, "filename_prefix", q.m.product),
               q.normalizedArch, q.m.version)

\* C22: a download of incus.tar.xz or lxd.tar.xz fetches from the
\* code-release URL built from the organization, the record's github_repo or
\* else the product name, the record's filename_prefix or else the product
\* name, the normalized architecture and the version, whether or not the
\* record carries an explicit disk source URL or a build identifier.
C22_MetaSource ==
    \A r \in MetaFetches :
        /\ Len(req[r].normalizedArch) = 1
        /\ Len(req[r].m.version) = 1
        /\ req[r].fetched = <<MetaSource(req[r])>>

C22_Witness ==
    \E r \in MetaFetches :
        /\ req[r].m.filename = <<"lxd.tar.xz">>
        /\ req[r].m.arch = <<"X86_64">>
        /\ RequestedField(req[r], "talos_factory_url") = StrV(MirrorUrl)
        /\ RequestedField(req[r], "talos_schematic_id") = StrV(<<"5c4e">>)
        /\ req[r].fetched =
              <<<<"https", ":", "/", "/", "github.com", "/", "windsorcli", "/",
                  "talos-incus", "/", "releases", "/", "download", "/", "v1.12.0", "/",
                  "metal-amd64-incus.tar.xz">>>>

(***************************************************************************)
(* The items of a version entry                                            *)
(***************************************************************************)
\* the item the items map holds under a file name
ItemOf(items, filename) ==
    items[CHOOSE i \in 1..Len(items) : items[i].key = filename].value

\* the items map has the three items, and they carry the facts of the record
ThreeItems(items, record) ==
    /\ Len(items) = 3
    /\ {items[i].key : i \in 1..Len(items)} =
          {<<"incus.tar.xz">>, <<"disk.qcow2">>, <<"lxd.tar.xz">>}
    /\ LET meta == ItemOf(items, <<"incus.tar.xz">>)
           disk == ItemOf(items, <<"disk.qcow2">>)
           compat == ItemOf(items, <<"lxd.tar.xz">>)
       IN  /\ compat.sha256 = meta.sha256
           /\ compat.size = meta.size
           /\ compat.path = meta.path
           /\ compat.combined = meta.combined
           /\ meta.sha256 = record["meta_hash"]
           /\ meta.size = record["meta_size"]
           /\ meta.combined = record["combined_hash"]
           /\ disk.sha256 = record["disk_hash"]
           /\ disk.size = record["disk_size"]

\* C23: every version entry of the images document has an items map with
\* exactly the metadata item incus.tar.xz, the disk item disk.qcow2 and the
\* compatibility item lxd.tar.xz; the compatibility item has the metadata
\* item's sha256, size, path and combined hash, the metadata item has the
\* record's meta hash, meta size and combined hash, and the disk item has the
\* record's disk hash and disk size.
C23_Items ==
    \A r \in ImagesDone :
        \A i \in 1..Len(req[r].resp.doc) :
            LET key == <<"product", ":">> \o req[r].resp.doc[i].key
                versions == req[r].resp.doc[i].value.versions
            IN  \A v \in 1..Len(versions) :
                    /\ key \in DOMAIN kv
                    /\ kv[key].kind = "object"
                    /\ ThreeItems(versions[v].value, kv[key].obj)

C23_Witness ==
    \E r \in ImagesDone :
        /\ Len(req[r].resp.doc) = 2
        /\ \A i \in 1..2 :
              /\ Len(req[r].resp.doc[i].value.versions) = 1
              /\ ItemOf(req[r].resp.doc[i].value.versions[1].value,
                        <<"lxd.tar.xz">>).sha256 = StrV(<<"aaa">>)
              /\ ItemOf(req[r].resp.doc[i].value.versions[1].value,
                        <<"disk.qcow2">>).sha256 = StrV(<<"bbb">>)

(***************************************************************************)
(* Two requests handled concurrently: the handler of one runs while the    *)
(* other is suspended at a registry read or at its upstream fetch          *)
(***************************************************************************)
\* five segments, the architecture under one of its aliases
KX == <<"product", ":", "talos", ":", "v1.12.0", ":", "x86_64", ":", "default">>

\* a registry with records under one or both of K1 and KX
ConcurrentRegistries ==
    {[k \in {ProductsListKey, K1, KX} |->
        CASE k = ProductsListKey -> JsonArray(l)
          [] k = K1 -> r1
          [] OTHER  -> rx] :
        l \in {<<K1>>, <<KX>>, <<K1, KX>>},
        r1 \in {Absent, JsonObject(PublishedRecord), JsonObject(HintedRecord)},
        rx \in {Absent, JsonObject(SchematicRecord)}}

\* the version key of the records' creation_date, 1766716800
PublishedVersionKey == <<"20251226_02", ":", "40">>

ConcurrentUrls ==
    CatalogUrls
    \cup {Url(DownloadPathname(<<"talos">>, <<"v1.12.0">>, a, <<"default">>, vk, f), <<>>) :
             a \in {<<"amd64">>, <<"x86_64">>},
             vk \in {PublishedVersionKey, ReqVersionKey},
             f \in {<<"incus.tar.xz">>, <<"disk.qcow2">>}}

ConcurrentOutcomes ==
    {Upstream(TRUE, 0, NoHeaders)}
    \cup {Upstream(FALSE, s, [n \in {"Content-Type"} |-> <<"application", "/", "octet-stream">>]) :
             s \in {200, 404}}

InitConcurrent ==
    /\ kv \in ConcurrentRegistries
    /\ env \in Environments
    /\ req = [r \in {1, 2} |-> IdleRequest]
    /\ pub = <<>>

NextConcurrent ==
    \/ \E r \in DOMAIN req, u \in ConcurrentUrls : Receive(r, u)
    \/ \E r \in DOMAIN req : IndexResume(r)
    \/ \E r \in DOMAIN req : ImagesListResume(r)
    \/ \E r \in DOMAIN req, now \in ClockReadings : ImagesRecordResume(r, now)
    \/ \E r \in DOMAIN req : DownloadGetResume(r)
    \/ \E r \in DOMAIN req, response \in ConcurrentOutcomes : DownloadFetchResume(r, response)

SpecConcurrent == InitConcurrent /\ [][NextConcurrent]_vars

(***************************************************************************)
(* Requests do not interfere                                               *)
(***************************************************************************)
\* the upstream's answer a request got: the one it keeps, or a failed fetch
OutcomeOf(q) ==
    IF q.upstream = NoUpstream THEN Upstream(TRUE, 0, NoHeaders) ELSE q.upstream

\* the ends of the images handler run from q on with no other request in
\* flight, one for every course of the clock
RECURSIVE ImagesAlone(_, _)
ImagesAlone(q, store) ==
    IF q.pc # "im_rec" THEN {q}
    ELSE UNION {ImagesAlone(ImagesRecord(q, KvGet(store, q.list[q.i]), now), store) :
                   now \in ClockReadings}

\* the ends of the handler of u run alone against the registry store and
\* the upstream's answer outcome
Alone(u, store, environment, outcome) ==
    CASE Route(u.pathname) = "index" ->
           {IndexRespond(IndexStart(IdleRequest, u), KvGet(store, ProductsListKey))}
      [] Route(u.pathname) = "images" ->
           ImagesAlone(ImagesList(ImagesStart(IdleRequest, u),
                                  KvGet(store, ProductsListKey)), store)
      [] Route(u.pathname) = "download" ->
           LET q0 == DownloadStart(IdleRequest, u)
               q1 == DownloadResolve(q0, environment, KvGet(store, q0.productKey))
           IN  IF q0.pc # "dl_get" THEN {q0}
               ELSE IF q1.pc # "dl_fetch" THEN {q1}
               ELSE {DownloadRespond(q1, outcome)}
      [] OTHER -> {Return([IdleRequest EXCEPT !.url = u], RouterNotFoundResponse)}

\* a step leaves the registry and the environment as they were, changes the
\* state of one request only, and leaves every ended request with the end
\* its handler comes to when run alone
IsolatedStep ==
    /\ kv' = kv
    /\ env' = env
    /\ \A r, s \in DOMAIN req :
          (r # s /\ req'[r] # req[r]) => req'[s] = req[s]
    /\ \A r \in DOMAIN req :
          Ended(req'[r]) =>
              req'[r] \in Alone(req'[r].url, kv, env, OutcomeOf(req'[r]))

\* C24: in every interleaving of two requests suspended at registry reads
\* and upstream fetches, no request writes the registry or the state of the
\* other, and each ends with the response it gives when handled alone on the
\* same registry contents and the same upstream answer.
C24_NoInterference == [][IsolatedStep]_vars

C24_Witness ==
    /\ req[1].pc = "im_rec"
    /\ req[1].i = 2
    /\ req[2].pc = "done"
    /\ req[2].resp.kind = "stream"
    /\ req[2].reads = <<K1>>

(***************************************************************************)
(* The catalog's paths at the download proxy                               *)
(***************************************************************************)
\* the paths the images document embeds for the product at position i
PathsOf(doc, i) ==
    {doc[i].value.versions[v].value[f].value.path :
        v \in 1..Len(doc[i].value.versions), f \in 1..3}

\* the download q asks for a path the document embeds for that product
Follows(q, doc, i) ==
    \E path \in PathsOf(doc, i) : q.url.pathname = <<"/">> \o path

\* C25 (as claimed): a download of a path the images document embeds reads
\* the registry key of the product the path was embedded for, the one whose
\* record gave the item's sha256, and is not answered with the proxy's 404
\* for a product not found, also when the stored key's architecture is an
\* alias.
C25_CatalogProxyAgree ==
    \A r1 \in ImagesDone, r2 \in Downloads :
        \A i \in 1..Len(req[r1].resp.doc) :
            Follows(req[r2], req[r1].resp.doc, i) =>
                /\ req[r2].reads = <<<<"product", ":">> \o req[r1].resp.doc[i].key>>
                /\ req[r2].pc = "done" =>
                      ~(req[r2].resp.status = 404 /\ req[r2].fetched = <<>>)

(***************************************************************************)
(* The two catalog documents of one registry state                         *)
(***************************************************************************)
\* C26: every wire key the images document has a product entry for is an
\* element of the products list of the index built from the same registry
\* state.
C26_ImagesWithinIndex ==
    \A r1 \in ImagesDone, r2 \in IndexDone :
        \A i \in 1..Len(req[r1].resp.doc) :
            \E j \in 1..Len(req[r2].resp.products) :
                req[r2].resp.products[j] = req[r1].resp.doc[i].key

C26_Witness ==
    \E r1 \in ImagesDone, r2 \in IndexDone :
        /\ KeySet = <<K1, KS>>
        /\ Len(req[r1].resp.doc) = 1
        /\ req[r1].resp.doc[1].key = WithoutNamespace(KS)
        /\ req[r2].resp.products = <<WithoutNamespace(K1), WithoutNamespace(KS)>>

(***************************************************************************)
(* Product entries and their versions                                      *)
(***************************************************************************)
\* C27 (as claimed): every product entry of the images document has a
\* versions map that is not empty; a listed key whose record gives no
\* version entry, such as a record that is the JSON value null, leaves no
\* product entry.
C27_NonEmptyVersions ==
    \A r \in ImagesDone :
        \A i \in 1..Len(req[r].resp.doc) :
            req[r].resp.doc[i].value.versions # <<>>

(***************************************************************************)
(* The version key of a download path                                      *)
(***************************************************************************)
\* two downloads whose paths differ in the version key at most
SameButVersionKey(q1, q2) ==
    /\ q1.m.ok /\ q2.m.ok
    /\ q1.m.product = q2.m.product
    /\ q1.m.version = q2.m.version
    /\ q1.m.arch = q2.m.arch
    /\ q1.m.variant = q2.m.variant
    /\ q1.m.filename = q2.m.filename

\* the response's headers but the canonical-URL header
HeadersButUrl(q) ==
    [n \in DOMAIN q.resp.headers \ {"Incus-Image-URL"} |-> q.resp.headers[n]]

\* C28: two downloads that differ only in the version key read the same
\* registry key and fetch the same upstream URL, and on the same upstream
\* answer they end with the same status and the same headers, the
\* content-hash header among them, but for the canonical-URL header; this
\* holds for a version key no catalog document publishes too.
C28_VersionKeyIgnored ==
    \A r1, r2 \in Downloads :
        SameButVersionKey(req[r1], req[r2]) =>
            /\ req[r1].reads = req[r2].reads
            /\ (req[r1].pc # "dl_get" /\ req[r2].pc # "dl_get") =>
                  req[r1].fetched = req[r2].fetched
            /\ (Ended(req[r1]) /\ Ended(req[r2])
                  /\ OutcomeOf(req[r1]) = OutcomeOf(req[r2])) =>
                  /\ req[r1].pc = req[r2].pc
                  /\ req[r1].resp.status = req[r2].resp.status
                  /\ req[r1].resp.kind = req[r2].resp.kind
                  /\ HeadersButUrl(req[r1]) = HeadersButUrl(req[r2])

C28_Witness ==
    /\ SameButVersionKey(req[1], req[2])
    /\ req[1].m.versionKey = PublishedVersionKey
    /\ req[2].m.versionKey = <<"20251226_00", ":", "00">>
    /\ req[1].resp.kind = "stream" /\ req[2].resp.kind = "stream"
    /\ req[1].resp.headers["Incus-Image-Hash"] = <<"bbb">>
    /\ req[2].resp.headers["Incus-Image-Hash"] = <<"bbb">>
    /\ req[1].resp.headers["Incus-Image-URL"] # req[2].resp.headers["Incus-Image-URL"]

(***************************************************************************)
(* The publisher, scripts/upload-kv-metadata.sh.  A run writes the record  *)
(* of every architecture it was given, reads the Product Key Set, and      *)
(* writes the set back merged with its own keys.  Every curl call is one   *)
(* step on the registry; the runs here get an answer to each call.         *)
(***************************************************************************)
\* env.IMAGE_HASHES after a PUT of value under key
KvPut(store, key, value) ==
    [k \in DOMAIN store \cup {key} |-> IF k = key THEN value ELSE store[k]]

\* PRODUCT_KEY="product:talos:${TALOS_VERSION}:${arch}:default"
PublishedKey(version, arch) ==
    Cat(<<"product", ":", "talos", ":">>, Join(<<version, arch, <<"default">>>>, ":"))

\* PRODUCT_KEYS once the loop over ARCH_ARRAY is through
ProductKeys(version, arches) ==
    [i \in 1..Len(arches) |-> PublishedKey(version, arches[i])]

\* mutant of Script: the Product Key Set is updated before the records
\* are written
Script_ListFirst(keys) ==
    <<[op |-> "get_list", key |-> ProductsListKey],
      [op |-> "put_list", key |-> ProductsListKey]>>
    \o [i \in 1..Len(keys) |-> [op |-> "put_record", key |-> keys[i]]]

\* the registry calls of a run, in the order the script makes them
Script(keys) ==
    [i \in 1..Len(keys) |-> [op |-> "put_record", key |-> keys[i]]]
    \o <<[op |-> "get_list", key |-> ProductsListKey],
         [op |-> "put_list", key |-> ProductsListKey]>>

\* EXISTING_PRODUCTS: the stored set when it parses to an array, else []
ExistingProducts(productsResponse) ==
    IF productsResponse.kind = "array" THEN productsResponse.arr ELSE <<>>

\* the place of a published key in jq's order of strings, which compares
\* code points: '1' comes before 'v', and "amd64" before "arm64"
JqRank(key) ==
    LET parts == Split(key, ":")
    IN  (IF parts[3] = <<"v1.12.0">> THEN 2 ELSE 0)
        + (IF parts[4] = <<"arm64">> THEN 1 ELSE 0)

RECURSIVE JqSort(_)
JqSort(S) ==
    IF S = {} THEN <<>>
    ELSE LET least == CHOOSE x \in S : \A y \in S : JqRank(x) <= JqRank(y)
         IN  <<least>> \o JqSort(S \ {least})

\* jq's unique: the elements sorted, each one once
JqUnique(a) == JqSort({a[i] : i \in 1..Len(a)})

\* UPDATED_PRODUCTS: ($existing + $new) | unique
UpdatedProducts(existing, new) == JqUnique(existing \o new)

IdleRun == [started |-> FALSE, keys |-> <<>>, script |-> <<>>, existing |-> <<>>]

RunDone(run) == run.started /\ run.script = <<>>

\* a run starts: its arguments, and the keys it will publish
PublisherStart(p, version, arches) ==
    /\ ~pub[p].started
    /\ pub' = [pub EXCEPT ![p] =
                 [@ EXCEPT !.started = TRUE,
                           !.keys = ProductKeys(version, arches),
                           !.script = Script(ProductKeys(version, arches))]]
    /\ UNCHANGED <<kv, env, req>>

\* curl -X PUT .../values/${PRODUCT_KEY} --data "${METADATA}" (lines 52-55)
PutRecord(p) ==
    /\ pub[p].script # <<>>
    /\ Head(pub[p].script).op = "put_record"
    /\ kv' = KvPut(kv, Head(pub[p].script).key, JsonObject(PublishedRecord))
    /\ pub' = [pub EXCEPT ![p].script = Tail(@)]
    /\ UNCHANGED <<env, req>>

\* curl -X GET .../values/products:list, and what lines 67-85 make of it
GetList(p) ==
    /\ pub[p].script # <<>>
    /\ Head(pub[p].script).op = "get_list"
    /\ pub' = [pub EXCEPT ![p].script = Tail(@),
                          ![p].existing = ExistingProducts(KvGet(kv, ProductsListKey))]
    /\ UNCHANGED <<kv, env, req>>

\* curl -X PUT .../values/products:list --data "${UPDATED_PRODUCTS}"
\* (lines 91-108)
PutList(p) ==
    /\ pub[p].script # <<>>
    /\ Head(pub[p].script).op = "put_list"
    /\ kv' = KvPut(kv, ProductsListKey,
                   JsonArray(UpdatedProducts(pub[p].existing, pub[p].keys)))
    /\ pub' = [pub EXCEPT ![p].script = Tail(@)]
    /\ UNCHANGED <<env, req>>

\* TALOS_VERSION and ARCHES of a run
PublishedVersions == {<<"v1.12.0">>, <<"1.12.0">>}

PublishedArches == {<<<<"amd64">>>>, <<<<"amd64">>, <<"arm64">>>>}

\* the registry before the runs: empty, or as an earlier run has left it
PublishRegistries ==
    {<<>>,
     [k \in {ProductsListKey, K1} |->
        IF k = ProductsListKey THEN JsonArray(<<K1>>) ELSE JsonObject(PublishedRecord)]}

InitPublish ==
    /\ kv \in PublishRegistries
    /\ env \in Environments
    /\ req = [r \in {1} |-> IdleRequest]
    /\ pub = [p \in {1, 2} |-> IdleRun]

NextPublish ==
    \/ \E p \in DOMAIN pub, version \in PublishedVersions, arches \in PublishedArches :
          PublisherStart(p, version, arches)
    \/ \E p \in DOMAIN pub : PutRecord(p)
    \/ \E p \in DOMAIN pub : GetList(p)
    \/ \E p \in DOMAIN pub : PutList(p)
    \/ \E r \in DOMAIN req : Receive(r, Url(ImagesPathname, <<>>))
    \/ \E r \in DOMAIN req : ImagesListResume(r)
    \/ \E r \in DOMAIN req, now \in ClockReadings : ImagesRecordResume(r, now)

SpecPublish == InitPublish /\ [][NextPublish]_vars

(***************************************************************************)
(* The publisher and a concurrent build of the images document             *)
(***************************************************************************)
\* a record is stored under the key
Resolves(k) == k \in DOMAIN kv /\ kv[k].kind = "object"

Listed == {KeySet[i] : i \in 1..Len(KeySet)}

\* C30 (as claimed): once two runs of the publisher have both completed,
\* whatever the interleaving of their steps, the Product Key Set holds every
\* key that either run published.
C30_NoKeyLost ==
    (\A p \in DOMAIN pub : RunDone(pub[p])) =>
        \A p \in DOMAIN pub :
            \A i \in 1..Len(pub[p].keys) : pub[p].keys[i] \in Listed

==========================================================================
